---- MODULE Spec2Model ----
(***************************************************************************)
(* Model of addons/l10n_ch/models/account_invoice.py: the ISR / ISR-B /    *)
(* QRR reference derivation of account.move, its display and scanline      *)
(* formatting, the optical line, the payment-reference validator and the   *)
(* 'Print ISR' action.                                                     *)
(*                                                                         *)
(* Strings are sequences of one-character strings.  The Python value False *)
(* of an unset Char field is the sentinel Absent; '' is <<>>.              *)
(***************************************************************************)
EXTENDS Integers, Sequences, FiniteSets, TLC

VARIABLES
    name,                           \* account.move.name
    invoice_partner_bank_id,        \* "bank" or "none"
    l10n_ch_postal,                 \* res.partner.bank field
    l10n_ch_isr_subscription_chf,   \* res.partner.bank field
    l10n_ch_isr_subscription_eur,   \* res.partner.bank field
    is_qr_iban,                     \* result of res.partner.bank._is_qr_iban()
    currency_name,                  \* currency_id.name
    type,                           \* account.move.type
    amount_residual,                \* in cents
    l10n_ch_isr_number,             \* stored computed field
    l10n_ch_isr_sent,               \* stored boolean field
    l10n_ch_mark_isr_as_sent,       \* context key set by action_invoice_sent
    outcome,                        \* what the last operation returned or raised
    call,                           \* arguments of a direct function call
    ret                             \* return value of each function called

vars == <<name, invoice_partner_bank_id, l10n_ch_postal,
          l10n_ch_isr_subscription_chf, l10n_ch_isr_subscription_eur,
          is_qr_iban, currency_name, type, amount_residual,
          l10n_ch_isr_number, l10n_ch_isr_sent, l10n_ch_mark_isr_as_sent,
          outcome, call, ret>>

recordVars == <<name, invoice_partner_bank_id, l10n_ch_postal,
                l10n_ch_isr_subscription_chf, l10n_ch_isr_subscription_eur,
                is_qr_iban, currency_name, type, amount_residual,
                l10n_ch_isr_number, l10n_ch_isr_sent,
                l10n_ch_mark_isr_as_sent, outcome>>

callVars == <<call, ret>>

----------------------------------------------------------------------------
(* Bounds of the explored inputs *)

MaxNameLen == 30
MaxIdLen == 28
MaxSubLen == 12
MaxStrLen == 13
MaxSeed == 1

(* Program constants *)

l10n_ch_ISR_ID_NUM_LENGTH == 6
ISR_BODY_LENGTH == 26
ISR_REF_MAX_DIGITS == 27
SPACING_BLOCK == 5
SCANLINE_MIDDLE_WIDTH == 6
OPTICAL_AMOUNT_WIDTH == 10

----------------------------------------------------------------------------
(* Python string primitives *)

Absent == <<"False">>
IndexError == <<"IndexError">>
TypeError == <<"TypeError">>

Truthy(x) == x # Absent /\ x # <<>>

DigitChar == <<"0", "1", "2", "3", "4", "5", "6", "7", "8", "9">>
Digits == {DigitChar[i] : i \in 1..10}
IsDigit(c) == c \in Digits
DigitVal(c) == (CHOOSE i \in 1..10 : DigitChar[i] = c) - 1

Max(a, b) == IF a > b THEN a ELSE b
Min(a, b) == IF a < b THEN a ELSE b

Repeat(c, n) == [i \in 1..Max(n, 0) |-> c]

\* s[k:] for k >= 0
DropLeft(s, k) == SubSeq(s, k + 1, Len(s))
\* s[-k:] for k > 0
TakeRight(s, k) == SubSeq(s, Max(Len(s) - k, 0) + 1, Len(s))
\* s[:-k] for k > 0
DropRight(s, k) == SubSeq(s, 1, Len(s) - k)
\* s[:k] for k >= 0
TakeLeft(s, k) == SubSeq(s, 1, Min(k, Len(s)))
\* s[i:j] for 0 <= i, 0 <= j
Slice(s, i, j) == SubSeq(s, i + 1, Min(j, Len(s)))

\* s.replace(c, '')
Remove(s, c) == SelectSeq(s, LAMBDA x : x # c)
\* re.sub('[^\d]', '', s)
DigitsOnly(s) == SelectSeq(s, IsDigit)

\* str.zfill(width): zeros go after a leading sign
zfill(s, width) ==
    IF Len(s) >= width THEN s
    ELSE IF Len(s) > 0 /\ s[1] \in {"+", "-"}
         THEN <<s[1]>> \o Repeat("0", width - Len(s)) \o Tail(s)
         ELSE Repeat("0", width - Len(s)) \o s

\* str.rjust(width, fillchar)
rjust(s, width, fillchar) == Repeat(fillchar, width - Len(s)) \o s

RECURSIVE StripLeadingZeros(_)
\* re.sub('^0*', '', s)
StripLeadingZeros(s) ==
    IF Len(s) > 0 /\ s[1] = "0" THEN StripLeadingZeros(Tail(s)) ELSE s

RECURSIVE NatToStr(_)
\* str(n) for n >= 0
NatToStr(n) ==
    IF n < 10 THEN <<DigitChar[n + 1]>>
    ELSE NatToStr(n \div 10) \o <<DigitChar[(n % 10) + 1]>>

----------------------------------------------------------------------------
(* odoo.tools.misc.mod10r: recursive modulo 10 check digit *)

codec == <<0, 9, 4, 6, 8, 2, 7, 1, 3, 5>>

RECURSIVE Report(_, _)
\* carry after the first k characters; characters that are no digit are
\* copied to the result and leave the carry alone
Report(number, k) ==
    IF k = 0 THEN 0
    ELSE LET r == Report(number, k - 1)
         IN  IF IsDigit(number[k])
             THEN codec[((DigitVal(number[k]) + r) % 10) + 1]
             ELSE r

mod10r(number) ==
    number \o <<DigitChar[((10 - Report(number, Len(number))) % 10) + 1]>>

\* odoo.tools.float_utils.float_split_str(amount, 2), amount in cents
float_split_str(cents) ==
    <<NatToStr(cents \div 100), zfill(NatToStr(cents % 100), 2)>>

----------------------------------------------------------------------------
(* ISR subscription *)

\* isr_subscription[2:-1]
MiddlePart(isr_subscription) ==
    SubSeq(isr_subscription, 3, Len(isr_subscription) - 1)

_format_isr_subscription(isr_subscription) ==
    IF Len(isr_subscription) = 0 THEN IndexError
    ELSE TakeLeft(isr_subscription, 2) \o <<"-">>
         \o StripLeadingZeros(MiddlePart(isr_subscription)) \o <<"-">>
         \o <<isr_subscription[Len(isr_subscription)]>>

Mutant_format_isr_subscription_scanline(isr_subscription) ==
    TakeLeft(isr_subscription, 2)
    \o TakeRight(rjust(MiddlePart(isr_subscription), SCANLINE_MIDDLE_WIDTH, "0"),
                 SCANLINE_MIDDLE_WIDTH)
    \o TakeRight(isr_subscription, 1)

_format_isr_subscription_scanline(isr_subscription) ==
    TakeLeft(isr_subscription, 2)
    \o rjust(MiddlePart(isr_subscription), SCANLINE_MIDDLE_WIDTH, "0")
    \o TakeRight(isr_subscription, 1)

\* the subscription number of the bank account in the invoice currency, or
\* Absent when the loop body leaves both fields False
SelectedSubscription(bank, cur, sub_eur, sub_chf) ==
    IF bank = "none" THEN Absent
    ELSE IF cur = <<"E", "U", "R">> THEN sub_eur
    ELSE IF cur = <<"C", "H", "F">> THEN sub_chf
    ELSE Absent

Mutant_compute_l10n_ch_isr_subscription(bank, cur, sub_eur, sub_chf) ==
    LET raw == IF bank = "none" THEN Absent
               ELSE IF cur = <<"E", "U", "R">> THEN sub_eur ELSE sub_chf
    IN  IF ~Truthy(raw)
        THEN [scanline |-> Absent, formatted |-> Absent, raised |-> "none"]
        ELSE [scanline |-> _format_isr_subscription_scanline(Remove(raw, "-")),
              formatted |-> _format_isr_subscription(Remove(raw, "-")),
              raised |-> "none"]

_compute_l10n_ch_isr_subscription(bank, cur, sub_eur, sub_chf) ==
    LET raw == SelectedSubscription(bank, cur, sub_eur, sub_chf)
    IN  IF ~Truthy(raw)
        THEN [scanline |-> Absent, formatted |-> Absent, raised |-> "none"]
        ELSE LET isr_subscription == Remove(raw, "-")
                 formatted == _format_isr_subscription(isr_subscription)
             IN  IF formatted = IndexError
                 THEN [scanline |-> Absent, formatted |-> Absent,
                       raised |-> "IndexError"]
                 ELSE [scanline |->
                           _format_isr_subscription_scanline(isr_subscription),
                       formatted |-> formatted,
                       raised |-> "none"]

----------------------------------------------------------------------------
(* ISR reference number *)

_get_isrb_id_number(bank, postal) ==
    IF bank # "none" /\ Truthy(postal) THEN postal ELSE <<>>

\* has_qriban, line 123
HasQriban(bank, qriban) == bank # "none" /\ qriban

_compute_l10n_ch_isr_number(nm, bank, postal, qriban, isr_subscription) ==
    IF (HasQriban(bank, qriban) \/ Truthy(isr_subscription)) /\ Truthy(nm)
    THEN LET id0 == _get_isrb_id_number(bank, postal)
             id_number == IF Truthy(id0)
                          THEN zfill(id0, l10n_ch_ISR_ID_NUM_LENGTH)
                          ELSE id0
             invoice_ref0 == DigitsOnly(nm)
             full_len == Len(id_number) + Len(invoice_ref0)
             extra == full_len - ISR_BODY_LENGTH
             invoice_ref == IF extra > 0 THEN DropLeft(invoice_ref0, extra)
                            ELSE invoice_ref0
             internal_ref == zfill(invoice_ref,
                                   ISR_BODY_LENGTH - Len(id_number))
         IN  mod10r(id_number \o internal_ref)
    ELSE Absent

----------------------------------------------------------------------------
(* Display spacing *)

RECURSIVE Mutant_space_isr_number_loop(_, _)
Mutant_space_isr_number_loop(to_treat, res) ==
    IF ~Truthy(to_treat) THEN res
    ELSE LET res1 == TakeRight(to_treat, SPACING_BLOCK) \o res
             rest == DropRight(to_treat, SPACING_BLOCK + 1)
         IN  Mutant_space_isr_number_loop(rest,
                 IF Truthy(rest) THEN <<" ">> \o res1 ELSE res1)

RECURSIVE _space_isr_number_loop(_, _)
_space_isr_number_loop(to_treat, res) ==
    IF ~Truthy(to_treat) THEN res
    ELSE LET res1 == TakeRight(to_treat, SPACING_BLOCK) \o res
             rest == DropRight(to_treat, SPACING_BLOCK)
         IN  _space_isr_number_loop(rest,
                 IF Truthy(rest) THEN <<" ">> \o res1 ELSE res1)

_space_isr_number(isr_number) == _space_isr_number_loop(isr_number, <<>>)

_compute_l10n_ch_isr_number_spaced(nm, bank, postal, isr_number) ==
    IF Truthy(nm) /\ bank # "none" /\ Truthy(postal)
    THEN _space_isr_number(isr_number)
    ELSE Absent

RECURSIVE space_qrr_reference_loop(_, _, _)
space_qrr_reference_loop(qrr_ref, i, spaced_qrr_ref) ==
    IF i > 0
    THEN space_qrr_reference_loop(qrr_ref, i - SPACING_BLOCK,
             Slice(qrr_ref, Max(i - SPACING_BLOCK, 0), i) \o <<" ">>
             \o spaced_qrr_ref)
    ELSE spaced_qrr_ref

space_qrr_reference(qrr_ref) ==
    space_qrr_reference_loop(qrr_ref, Len(qrr_ref), <<>>)

----------------------------------------------------------------------------
(* Optical line *)

_get_l10n_ch_isr_optical_amount(cur, amount) ==
    LET currency_code == IF cur = <<"C", "H", "F">> THEN <<"0", "1">>
                         ELSE IF cur = <<"E", "U", "R">> THEN <<"0", "3">>
                         ELSE Absent
        split == float_split_str(amount)
        amount_to_display == split[1] \o split[2]
        amount_ref == zfill(amount_to_display, OPTICAL_AMOUNT_WIDTH)
    IN  IF currency_code = Absent THEN TypeError
        ELSE mod10r(currency_code \o amount_ref)

_compute_l10n_ch_isr_optical_line(isr_number, isr_subscription, cur, amount) ==
    IF Truthy(isr_number) /\ Truthy(isr_subscription) /\ Truthy(cur)
    THEN LET amt == _get_l10n_ch_isr_optical_amount(cur, amount)
         IN  IF amt = TypeError THEN TypeError
             ELSE amt \o <<">">> \o isr_number \o <<"+", " ">>
                  \o isr_subscription \o <<">">>
    ELSE <<>>

----------------------------------------------------------------------------
(* Validity and payment reference check *)

Mutant_compute_l10n_ch_isr_valid(tp, nm, isr_subscription, cur) ==
    /\ tp = "out_invoice"
    /\ Truthy(nm)
    /\ Truthy(isr_subscription)
    /\ cur \in {<<"C", "H", "F">>}

_compute_l10n_ch_isr_valid(tp, nm, isr_subscription, cur) ==
    /\ tp = "out_invoice"
    /\ Truthy(nm)
    /\ Truthy(isr_subscription)
    /\ cur \in {<<"E", "U", "R">>, <<"C", "H", "F">>}

\* re.match(r'^(\d{2,27})$', ref)
MatchesIsrPattern(ref) ==
    /\ Len(ref) >= 2
    /\ Len(ref) <= ISR_REF_MAX_DIGITS
    /\ \A i \in 1..Len(ref) : IsDigit(ref[i])

Mutant_has_isr_ref(invoice_payment_ref, move_ref) ==
    LET ref0 == IF Truthy(invoice_payment_ref) THEN invoice_payment_ref
                ELSE move_ref
    IN  IF ~Truthy(ref0) THEN FALSE
        ELSE IF MatchesIsrPattern(ref0) THEN ref0 = mod10r(DropRight(ref0, 1))
             ELSE FALSE

_has_isr_ref(invoice_payment_ref, move_ref) ==
    LET ref0 == IF Truthy(invoice_payment_ref) THEN invoice_payment_ref
                ELSE move_ref
    IN  IF ~Truthy(ref0) THEN FALSE
        ELSE LET ref == Remove(ref0, " ")
             IN  IF MatchesIsrPattern(ref) THEN ref = mod10r(DropRight(ref, 1))
                 ELSE FALSE

----------------------------------------------------------------------------
(* Values written to the record *)

CHF == <<"C", "H", "F">>
EUR == <<"E", "U", "R">>
USD == <<"U", "S", "D">>

LongName == <<"9", "8", "7", "6", "5", "4", "3", "2", "1", "0",
              "1", "2", "3", "4", "5", "6", "7", "8", "9", "0",
              "1", "2", "3", "4", "5", "6", "7", "8", "9", "0">>

NameValues ==
    {Absent, <<"/">>,
     <<"I", "N", "V", "/", "2", "0", "2", "1", "/", "0", "0", "0", "1">>,
     LongName}
PostalValues ==
    {Absent, <<"1", "5", "0", "0", "0", "1">>,
     <<"0", "1", "-", "1", "6", "2", "-", "8">>}
SubscriptionChfValues ==
    {Absent, <<"0", "1", "-", "1", "6", "2", "-", "8">>,
     <<"0", "1", "0", "2", "3", "4", "5", "6", "7">>}
SubscriptionEurValues ==
    {Absent, <<"0", "3", "-", "1", "6", "2", "-", "5">>}
CurrencyValues == {Absent, CHF, EUR, USD}
TypeValues == {"out_invoice", "in_invoice"}
AmountValues == {0, 394975}

----------------------------------------------------------------------------
(* Computed fields of the record in the current state *)

IsrSubscriptionOf(bank, cur, sub_eur, sub_chf) ==
    _compute_l10n_ch_isr_subscription(bank, cur, sub_eur, sub_chf).scanline

l10n_ch_isr_subscription ==
    IsrSubscriptionOf(invoice_partner_bank_id, currency_name,
                      l10n_ch_isr_subscription_eur,
                      l10n_ch_isr_subscription_chf)

l10n_ch_isr_valid ==
    _compute_l10n_ch_isr_valid(type, name, l10n_ch_isr_subscription,
                               currency_name)

l10n_ch_isr_optical_line ==
    _compute_l10n_ch_isr_optical_line(l10n_ch_isr_number,
                                      l10n_ch_isr_subscription,
                                      currency_name, amount_residual)

\* what _compute_l10n_ch_isr_number yields from the current state
IsrNumberDerivation ==
    _compute_l10n_ch_isr_number(name, invoice_partner_bank_id, l10n_ch_postal,
                                is_qr_iban, l10n_ch_isr_subscription)

NotCalled == <<"NotCalled">>
True == <<"True">>
FnNames == {"_compute_l10n_ch_isr_number", "_compute_l10n_ch_isr_subscription",
            "_space_isr_number", "space_qrr_reference", "_has_isr_ref"}
NoCall == [kind |-> "none", s |-> Absent, t |-> Absent, u |-> Absent,
           flag |-> FALSE]
NoRet == [f \in FnNames |-> NotCalled]

Returned(op) == [op |-> op, raised |-> "none", errors |-> <<>>]

Init ==
    /\ name = <<"/">>
    /\ invoice_partner_bank_id = "none"
    /\ l10n_ch_postal = Absent
    /\ l10n_ch_isr_subscription_chf = Absent
    /\ l10n_ch_isr_subscription_eur = Absent
    /\ is_qr_iban = FALSE
    /\ currency_name = CHF
    /\ type \in TypeValues
    /\ amount_residual = 0
    /\ l10n_ch_isr_number = Absent
    /\ l10n_ch_isr_sent = FALSE
    /\ l10n_ch_mark_isr_as_sent = FALSE
    /\ outcome = Returned("create")
    /\ call = NoCall
    /\ ret = NoRet

----------------------------------------------------------------------------
(* Writes.  The stored l10n_ch_isr_number is recomputed by the writes that   *)
(* touch a field named in its api.depends: 'name' and                        *)
(* 'invoice_partner_bank_id.l10n_ch_postal'.                                 *)

write_name(v) ==
    /\ v # name
    /\ name' = v
    /\ l10n_ch_isr_number' =
           _compute_l10n_ch_isr_number(v, invoice_partner_bank_id,
               l10n_ch_postal, is_qr_iban, l10n_ch_isr_subscription)
    /\ outcome' = Returned("write")
    /\ UNCHANGED <<invoice_partner_bank_id, l10n_ch_postal,
                   l10n_ch_isr_subscription_chf, l10n_ch_isr_subscription_eur,
                   is_qr_iban, currency_name, type, amount_residual,
                   l10n_ch_isr_sent, l10n_ch_mark_isr_as_sent, call, ret>>

write_invoice_partner_bank_id(v) ==
    /\ v # invoice_partner_bank_id
    /\ invoice_partner_bank_id' = v
    /\ l10n_ch_isr_number' =
           _compute_l10n_ch_isr_number(name, v, l10n_ch_postal, is_qr_iban,
               IsrSubscriptionOf(v, currency_name,
                                 l10n_ch_isr_subscription_eur,
                                 l10n_ch_isr_subscription_chf))
    /\ outcome' = Returned("write")
    /\ UNCHANGED <<name, l10n_ch_postal,
                   l10n_ch_isr_subscription_chf, l10n_ch_isr_subscription_eur,
                   is_qr_iban, currency_name, type, amount_residual,
                   l10n_ch_isr_sent, l10n_ch_mark_isr_as_sent, call, ret>>

write_l10n_ch_postal(v) ==
    /\ v # l10n_ch_postal
    /\ l10n_ch_postal' = v
    /\ l10n_ch_isr_number' =
           IF invoice_partner_bank_id = "none" THEN l10n_ch_isr_number
           ELSE _compute_l10n_ch_isr_number(name, invoice_partner_bank_id, v,
                    is_qr_iban, l10n_ch_isr_subscription)
    /\ outcome' = Returned("write")
    /\ UNCHANGED <<name, invoice_partner_bank_id,
                   l10n_ch_isr_subscription_chf, l10n_ch_isr_subscription_eur,
                   is_qr_iban, currency_name, type, amount_residual,
                   l10n_ch_isr_sent, l10n_ch_mark_isr_as_sent, call, ret>>

write_l10n_ch_isr_subscription_chf(v) ==
    /\ v # l10n_ch_isr_subscription_chf
    /\ l10n_ch_isr_subscription_chf' = v
    /\ outcome' = Returned("write")
    /\ UNCHANGED <<name, invoice_partner_bank_id, l10n_ch_postal,
                   l10n_ch_isr_subscription_eur,
                   is_qr_iban, currency_name, type, amount_residual,
                   l10n_ch_isr_number,
                   l10n_ch_isr_sent, l10n_ch_mark_isr_as_sent, call, ret>>

write_l10n_ch_isr_subscription_eur(v) ==
    /\ v # l10n_ch_isr_subscription_eur
    /\ l10n_ch_isr_subscription_eur' = v
    /\ outcome' = Returned("write")
    /\ UNCHANGED <<name, invoice_partner_bank_id, l10n_ch_postal,
                   l10n_ch_isr_subscription_chf,
                   is_qr_iban, currency_name, type, amount_residual,
                   l10n_ch_isr_number,
                   l10n_ch_isr_sent, l10n_ch_mark_isr_as_sent, call, ret>>

\* a change of the bank account number that changes _is_qr_iban()
write_acc_number(v) ==
    /\ v # is_qr_iban
    /\ is_qr_iban' = v
    /\ outcome' = Returned("write")
    /\ UNCHANGED <<name, invoice_partner_bank_id, l10n_ch_postal,
                   l10n_ch_isr_subscription_chf, l10n_ch_isr_subscription_eur,
                   currency_name, type, amount_residual,
                   l10n_ch_isr_number,
                   l10n_ch_isr_sent, l10n_ch_mark_isr_as_sent, call, ret>>

write_currency_id(v) ==
    /\ v # currency_name
    /\ currency_name' = v
    /\ outcome' = Returned("write")
    /\ UNCHANGED <<name, invoice_partner_bank_id, l10n_ch_postal,
                   l10n_ch_isr_subscription_chf, l10n_ch_isr_subscription_eur,
                   is_qr_iban, type, amount_residual,
                   l10n_ch_isr_number,
                   l10n_ch_isr_sent, l10n_ch_mark_isr_as_sent, call, ret>>

write_amount_residual(v) ==
    /\ v # amount_residual
    /\ amount_residual' = v
    /\ outcome' = Returned("write")
    /\ UNCHANGED <<name, invoice_partner_bank_id, l10n_ch_postal,
                   l10n_ch_isr_subscription_chf, l10n_ch_isr_subscription_eur,
                   is_qr_iban, currency_name, type,
                   l10n_ch_isr_number,
                   l10n_ch_isr_sent, l10n_ch_mark_isr_as_sent, call, ret>>

----------------------------------------------------------------------------
(* 'Print ISR' and the send-by-mail path *)

Mutant_isr_print_errors(bank, isr_subscription, tp, cur, nm) ==
    IF bank = "none" THEN <<"bank_account_empty">>
    ELSE IF ~Truthy(isr_subscription) THEN <<"no_isr_subscription">>
    ELSE IF tp # "out_invoice" THEN <<"only_customer_isr">>
    ELSE IF cur \notin {EUR, CHF} THEN <<"currency_chf_eur">>
    ELSE IF ~Truthy(nm) THEN <<"missing_name">>
    ELSE <<>>

\* the list built in the else branch of isr_print
isr_print_errors(bank, isr_subscription, tp, cur, nm) ==
    (IF bank = "none" THEN <<"bank_account_empty">>
     ELSE IF ~Truthy(isr_subscription) THEN <<"no_isr_subscription">>
     ELSE <<>>)
    \o (IF tp # "out_invoice" THEN <<"only_customer_isr">> ELSE <<>>)
    \o (IF cur \notin {EUR, CHF} THEN <<"currency_chf_eur">> ELSE <<>>)
    \o (IF ~Truthy(nm) THEN <<"missing_name">> ELSE <<>>)

isr_print ==
    /\ IF l10n_ch_isr_valid
       THEN /\ l10n_ch_isr_sent' = TRUE
            /\ outcome' = Returned("isr_print")
       ELSE LET errors == isr_print_errors(invoice_partner_bank_id,
                              l10n_ch_isr_subscription, type, currency_name,
                              name)
            IN  /\ l10n_ch_isr_sent' = l10n_ch_isr_sent
                /\ outcome' = [op |-> "isr_print",
                               raised |-> IF errors = <<>>
                                          THEN "NotImplementedError"
                                          ELSE "ValidationError",
                               errors |-> errors]
    /\ UNCHANGED <<name, invoice_partner_bank_id, l10n_ch_postal,
                   l10n_ch_isr_subscription_chf, l10n_ch_isr_subscription_eur,
                   is_qr_iban, currency_name, type, amount_residual,
                   l10n_ch_isr_number, l10n_ch_mark_isr_as_sent, call, ret>>

action_invoice_sent ==
    /\ l10n_ch_mark_isr_as_sent' = l10n_ch_isr_valid
    /\ outcome' = Returned("action_invoice_sent")
    /\ UNCHANGED <<name, invoice_partner_bank_id, l10n_ch_postal,
                   l10n_ch_isr_subscription_chf, l10n_ch_isr_subscription_eur,
                   is_qr_iban, currency_name, type, amount_residual,
                   l10n_ch_isr_number, l10n_ch_isr_sent, call, ret>>

message_post ==
    /\ l10n_ch_isr_sent' =
           IF l10n_ch_mark_isr_as_sent THEN TRUE ELSE l10n_ch_isr_sent
    /\ l10n_ch_mark_isr_as_sent' = FALSE
    /\ outcome' = Returned("message_post")
    /\ UNCHANGED <<name, invoice_partner_bank_id, l10n_ch_postal,
                   l10n_ch_isr_subscription_chf, l10n_ch_isr_subscription_eur,
                   is_qr_iban, currency_name, type, amount_residual,
                   l10n_ch_isr_number, call, ret>>

Next ==
    \/ \E v \in NameValues : write_name(v)
    \/ \E v \in {"none", "bank"} : write_invoice_partner_bank_id(v)
    \/ \E v \in PostalValues : write_l10n_ch_postal(v)
    \/ \E v \in SubscriptionChfValues : write_l10n_ch_isr_subscription_chf(v)
    \/ \E v \in SubscriptionEurValues : write_l10n_ch_isr_subscription_eur(v)
    \/ \E v \in BOOLEAN : write_acc_number(v)
    \/ \E v \in CurrencyValues : write_currency_id(v)
    \/ \E v \in AmountValues : write_amount_residual(v)
    \/ isr_print
    \/ action_invoice_sent
    \/ message_post

Spec == Init /\ [][Next]_vars

----------------------------------------------------------------------------
(* Direct calls of the functions on generated arguments *)

Gen(alphabet, n, a, b) ==
    [i \in 1..n |-> alphabet[((a + b * i) % Len(alphabet)) + 1]]

NameAlphabet == <<"2", "0", "/", "1", "7", "I", "9", "3", "-", "5">>
IdAlphabet == <<"1", "5", "0", "-", "0", "1", "2", "3", "4", "8">>
SubAlphabet == <<"0", "1", "-", "0", "0", "1", "6", "2", "8", "3", "-">>
SpaceAlphabet == <<"1", "2", "3", " ", "4", "5", "6", "7", "A", "9", "0">>

Seeds == 0..MaxSeed

GenNames ==
    {Absent}
    \cup {Gen(NameAlphabet, n, a, 1) : n \in 0..MaxNameLen, a \in Seeds}
    \cup {Gen(DigitChar, n, a, 3) : n \in 0..MaxNameLen, a \in Seeds}
GenIds ==
    {Absent} \cup {Gen(IdAlphabet, n, a, 1) : n \in 0..MaxIdLen, a \in Seeds}
GenSubs ==
    {Absent} \cup {Gen(SubAlphabet, n, a, 1) : n \in 0..MaxSubLen, a \in Seeds}
GenStrs ==
    {Gen(SpaceAlphabet, n, a, 1) : n \in 0..MaxStrLen, a \in Seeds}
    \cup {Gen(DigitChar, n, a, 3) : n \in 0..MaxStrLen, a \in Seeds}
GenBodies ==
    {Gen(DigitChar, n, a, 3) : n \in 1..(ISR_BODY_LENGTH + 1), a \in Seeds}

\* payment references made from a digit string d: checksummed, then plain,
\* spaced either way, or with a wrong last digit
RefsOf(d) ==
    {mod10r(d), _space_isr_number(mod10r(d)), space_qrr_reference(mod10r(d)),
     d \o <<DigitChar[((Report(d, Len(d)) + 1) % 10) + 1]>>}

Calls ==
    [kind : {"isr_number"}, s : GenNames, t : GenIds,
     u : {Absent, <<"0", "1", "0", "0", "0", "1", "6", "2", "8">>},
     flag : BOOLEAN]
    \cup [kind : {"subscription"}, s : GenSubs,
          t : {Absent, <<"0", "3", "-", "1", "6", "2", "-", "5">>},
          u : CurrencyValues, flag : {TRUE}]
    \cup [kind : {"spacing"}, s : GenStrs, t : {Absent}, u : {Absent},
          flag : {FALSE}]
    \cup UNION {{[kind |-> "has_isr_ref", s |-> r, t |-> Absent, u |-> d,
                   flag |-> FALSE] : r \in RefsOf(d)} : d \in GenBodies}
    \cup UNION {{[kind |-> "has_isr_ref", s |-> Absent, t |-> r, u |-> d,
                   flag |-> FALSE] : r \in RefsOf(d)} : d \in GenBodies}

InitFn ==
    /\ name = <<"/">>
    /\ invoice_partner_bank_id = "none"
    /\ l10n_ch_postal = Absent
    /\ l10n_ch_isr_subscription_chf = Absent
    /\ l10n_ch_isr_subscription_eur = Absent
    /\ is_qr_iban = FALSE
    /\ currency_name = CHF
    /\ type = "out_invoice"
    /\ amount_residual = 0
    /\ l10n_ch_isr_number = Absent
    /\ l10n_ch_isr_sent = FALSE
    /\ l10n_ch_mark_isr_as_sent = FALSE
    /\ outcome = Returned("create")
    /\ call \in Calls
    /\ ret = NoRet

\* record with bank account t as l10n_ch_postal, QR-IBAN status flag and
\* scanline subscription u
Call_compute_l10n_ch_isr_number ==
    /\ call.kind = "isr_number"
    /\ ret["_compute_l10n_ch_isr_number"] = NotCalled
    /\ ret' = [ret EXCEPT !["_compute_l10n_ch_isr_number"] =
                  _compute_l10n_ch_isr_number(call.s, "bank", call.t,
                                              call.flag, call.u)]
    /\ UNCHANGED <<recordVars, call>>

\* record in currency u with a bank account whose subscription numbers are
\* s (CHF) and t (EUR)
Call_compute_l10n_ch_isr_subscription ==
    /\ call.kind = "subscription"
    /\ ret["_compute_l10n_ch_isr_subscription"] = NotCalled
    /\ ret' = [ret EXCEPT !["_compute_l10n_ch_isr_subscription"] =
                  LET r == _compute_l10n_ch_isr_subscription("bank", call.u,
                               call.t, call.s)
                  IN  IF r.raised = "none" THEN r.scanline ELSE IndexError]
    /\ UNCHANGED <<recordVars, call>>

Call_space_isr_number ==
    /\ call.kind = "spacing"
    /\ ret["_space_isr_number"] = NotCalled
    /\ ret' = [ret EXCEPT !["_space_isr_number"] = _space_isr_number(call.s)]
    /\ UNCHANGED <<recordVars, call>>

Call_space_qrr_reference ==
    /\ call.kind = "spacing"
    /\ ret["space_qrr_reference"] = NotCalled
    /\ ret' = [ret EXCEPT !["space_qrr_reference"] =
                  space_qrr_reference(call.s)]
    /\ UNCHANGED <<recordVars, call>>

\* record with invoice_payment_ref s and ref t
Call_has_isr_ref ==
    /\ call.kind = "has_isr_ref"
    /\ ret["_has_isr_ref"] = NotCalled
    /\ ret' = [ret EXCEPT !["_has_isr_ref"] =
                  IF _has_isr_ref(call.s, call.t) THEN True ELSE Absent]
    /\ UNCHANGED <<recordVars, call>>

NextFn ==
    \/ Call_compute_l10n_ch_isr_number
    \/ Call_compute_l10n_ch_isr_subscription
    \/ Call_space_isr_number
    \/ Call_space_qrr_reference
    \/ Call_has_isr_ref

SpecFn == InitFn /\ [][NextFn]_vars

----------------------------------------------------------------------------
(* Properties *)

Elems(seq) == {seq[i] : i \in 1..Len(seq)}

IsrNumberRet == ret["_compute_l10n_ch_isr_number"]
IsrNumberComputed ==
    /\ call.kind = "isr_number"
    /\ IsrNumberRet # NotCalled
    /\ IsrNumberRet # Absent

\* C1: whenever _compute_l10n_ch_isr_number yields a reference that is not
\* absent, for any invoice name and any customer id of any length, the
\* reference is exactly 27 characters long.
C1_ReferenceIs27Chars ==
    IsrNumberComputed => Len(IsrNumberRet) = ISR_BODY_LENGTH + 1

\* C2: the stored l10n_ch_isr_number always equals what the derivation
\* produces from the current name, bank account, bank account fields and
\* currency; it is never stale.
C2_StoredNeverStale == l10n_ch_isr_number = IsrNumberDerivation

\* C3: space_qrr_reference returns the same output as _space_isr_number for
\* every input string.
C3_SpacingIdentical ==
    (/\ call.kind = "spacing"
     /\ ret["_space_isr_number"] # NotCalled
     /\ ret["space_qrr_reference"] # NotCalled)
    => ret["space_qrr_reference"] = ret["_space_isr_number"]

SubscriptionRet == ret["_compute_l10n_ch_isr_subscription"]
ScanlineComputed ==
    /\ call.kind = "subscription"
    /\ SubscriptionRet \notin {NotCalled, Absent, IndexError}
\* the raw subscription of the call's currency, hyphens stripped
CallRawStripped ==
    Remove(IF call.u = EUR THEN call.t ELSE call.s, "-")

\* C4 as stated: every computed scanline subscription is exactly 9
\* characters long.
C4_ScanlineIs9 == ScanlineComputed => Len(SubscriptionRet) = 9

\* C4 amended: a computed scanline subscription is 9 characters long
\* exactly when the hyphen-stripped raw string has 2 to 9 characters, and it
\* then starts with the raw string's first two characters and ends with its
\* last one; a single character gives 8 characters and a string longer than
\* 9 keeps its length, the middle part is never truncated.
C4_ScanlineWidth ==
    ScanlineComputed =>
        LET L == Len(CallRawStripped)
        IN  /\ L >= 1
            /\ Len(SubscriptionRet) = Min(L, 2) + Max(6, L - 3) + 1
            /\ (Len(SubscriptionRet) = 9) <=> (L \in 2..9)
            /\ L \in 2..9 =>
                   /\ TakeLeft(SubscriptionRet, 2) = TakeLeft(CallRawStripped, 2)
                   /\ SubscriptionRet[9] = CallRawStripped[L]
                   /\ SubSeq(SubscriptionRet, 3, 8)
                          = rjust(SubSeq(CallRawStripped, 3, L - 1), 6, "0")

C4_Witness ==
    /\ ScanlineComputed
    /\ Len(CallRawStripped) = 6
    /\ Len(SubscriptionRet) = 9
    /\ call.s # CallRawStripped

OpticalLineParts(line) ==
    LET amt == _get_l10n_ch_isr_optical_amount(currency_name, amount_residual)
        a == Len(amt)
        r == Len(l10n_ch_isr_number)
        c == Len(l10n_ch_isr_subscription)
    IN  /\ amt # TypeError
        /\ Len(line) = a + 1 + r + 2 + c + 1
        /\ SubSeq(line, 1, a) = amt
        /\ line[a + 1] = ">"
        /\ SubSeq(line, a + 2, a + 1 + r) = l10n_ch_isr_number
        /\ line[a + r + 2] = "+"
        /\ line[a + r + 3] = " "
        /\ SubSeq(line, a + r + 4, a + r + 3 + c) = l10n_ch_isr_subscription
        /\ line[a + r + c + 4] = ">"

HasIsrRefRet == ret["_has_isr_ref"]
CallRef == IF Truthy(call.s) THEN call.s ELSE call.t
\* the call checks the checksummed form of a digit string of 1 to 26 digits
ChecksummedCall ==
    /\ call.kind = "has_isr_ref"
    /\ HasIsrRefRet # NotCalled
    /\ Len(call.u) \in 1..ISR_BODY_LENGTH
    /\ \A i \in 1..Len(call.u) : IsDigit(call.u[i])
    /\ Remove(CallRef, " ") = mod10r(call.u)

\* C6: a digit string of 1 to 26 digits followed by its mod10r check digit,
\* stored as the payment reference with or without spaces, is accepted by
\* _has_isr_ref.
C6_ChecksummedRefAccepted == ChecksummedCall => HasIsrRefRet = True

C6_Witness ==
    /\ ChecksummedCall
    /\ Len(call.u) = ISR_BODY_LENGTH
    /\ Len(CallRef) > ISR_REF_MAX_DIGITS
    /\ HasIsrRefRet = True

PrintRefused ==
    /\ outcome.op = "isr_print"
    /\ outcome.raised = "ValidationError"

\* C7 as stated: the ValidationError of isr_print lists the reason of every
\* one of the five preconditions that is unmet.
C7_EveryBlockerListed ==
    PrintRefused =>
        /\ invoice_partner_bank_id = "none"
               => "bank_account_empty" \in Elems(outcome.errors)
        /\ ~Truthy(l10n_ch_isr_subscription)
               => "no_isr_subscription" \in Elems(outcome.errors)
        /\ type # "out_invoice"
               => "only_customer_isr" \in Elems(outcome.errors)
        /\ currency_name \notin {EUR, CHF}
               => "currency_chf_eur" \in Elems(outcome.errors)
        /\ ~Truthy(name) => "missing_name" \in Elems(outcome.errors)

\* C7 amended: the ValidationError of isr_print lists the reason of every
\* unmet precondition among bank account, type, currency and name; the
\* missing subscription is listed exactly when a bank account is set and has
\* no subscription for the invoice currency, and not when the bank account
\* itself is missing.
C7_BlockersListed ==
    PrintRefused =>
        /\ invoice_partner_bank_id = "none"
               => "bank_account_empty" \in Elems(outcome.errors)
        /\ (invoice_partner_bank_id # "none"
            /\ ~Truthy(l10n_ch_isr_subscription))
               <=> "no_isr_subscription" \in Elems(outcome.errors)
        /\ type # "out_invoice"
               => "only_customer_isr" \in Elems(outcome.errors)
        /\ currency_name \notin {EUR, CHF}
               => "currency_chf_eur" \in Elems(outcome.errors)
        /\ ~Truthy(name) => "missing_name" \in Elems(outcome.errors)

C7_Witness ==
    /\ PrintRefused
    /\ invoice_partner_bank_id # "none"
    /\ outcome.errors = <<"no_isr_subscription", "only_customer_isr",
                          "currency_chf_eur", "missing_name">>

\* the 26-character body the claim describes for the call's name and id
C8_IdPart ==
    IF Truthy(call.t) THEN zfill(call.t, l10n_ch_ISR_ID_NUM_LENGTH) ELSE <<>>
C8_InvoiceDigits == DigitsOnly(call.s)

\* C8: when id part plus invoice digits exceed 26 characters, exactly
\* (total - 26) digits are dropped from the left of the invoice digits and
\* the 26-character body is the id part followed by the rightmost
\* (26 - len(id part)) invoice digits; otherwise the body is the id part
\* followed by the invoice digits left-padded with zeros.
C8_BodyLayout ==
    IsrNumberComputed =>
        LET body == DropRight(IsrNumberRet, 1)
            total == Len(C8_IdPart) + Len(C8_InvoiceDigits)
            room == ISR_BODY_LENGTH - Len(C8_IdPart)
        IN  /\ Len(body) = ISR_BODY_LENGTH
            /\ IF total > ISR_BODY_LENGTH
               THEN /\ room >= 0
                    /\ body = C8_IdPart \o TakeRight(C8_InvoiceDigits, room)
                    /\ Len(C8_InvoiceDigits) - room = total - ISR_BODY_LENGTH
               ELSE body = C8_IdPart
                           \o Repeat("0", ISR_BODY_LENGTH - total)
                           \o C8_InvoiceDigits

Spaced ==
    /\ call.kind = "spacing"
    /\ ret["_space_isr_number"] # NotCalled
    /\ ret["space_qrr_reference"] # NotCalled

\* C9 as stated: removing every space from the block-of-5 grouping of s
\* gives back s, for all strings s.
C9_RoundTrip ==
    Spaced => /\ Remove(ret["_space_isr_number"], " ") = call.s
              /\ Remove(ret["space_qrr_reference"], " ") = call.s

\* C9 amended: removing every space from the block-of-5 grouping of s gives
\* s with its own spaces removed, hence s itself when s contains no space;
\* the grouping only inserts spaces.
C9_RoundTripModuloSpaces ==
    Spaced => /\ Remove(ret["_space_isr_number"], " ") = Remove(call.s, " ")
              /\ Remove(ret["space_qrr_reference"], " ") = Remove(call.s, " ")

C9_Witness ==
    /\ Spaced
    /\ Len(call.s) > 2 * SPACING_BLOCK
    /\ Remove(call.s, " ") = call.s
    /\ Len(ret["_space_isr_number"]) = Len(call.s) + 2
    /\ Remove(ret["_space_isr_number"], " ") = call.s

====
